---------------------------- MODULE Spec2Model ----------------------------
(* Stateful ODE integration engine of ContinuousNet                          *)
(* (continuous_net_jax/stateful_ode_solvers.py) and the adaptive training     *)
(* loop (odenet/refine_train.py).                                             *)
(*                                                                            *)
(* Numbers are exact rationals [n |-> numerator, d |-> denominator > 0] in    *)
(* lowest terms, so two rationals are equal iff their records are equal.      *)
(* The state x is a scalar (a 0-d array).                                     *)
EXTENDS Integers, Sequences, FiniteSets, TLC

VARIABLES call, inp, fast, pts, cfg, ta

vars == <<call, inp, fast, pts, cfg, ta>>

\* Value of a variable that the running specification does not use.
Idle == "idle"

-----------------------------------------------------------------------------
(* Bounds of the model *)

\* largest n_step handed to the step drivers
MaxNStep == 4
\* largest N_epochs handed to train_adapt
MaxEpochs == 3
\* largest number of batches the loader yields per epoch
MaxBatches == 2

-----------------------------------------------------------------------------
(* Exact rational arithmetic *)

Abs(i) == IF i < 0 THEN -i ELSE i

RECURSIVE GCD(_, _)
GCD(a, b) == IF b = 0 THEN a ELSE GCD(b, a % b)

\* the rational n/d (d > 0) in lowest terms
Q(n, d) == LET g == GCD(Abs(n), d) IN [n |-> n \div g, d |-> d \div g]

QInt(i) == [n |-> i, d |-> 1]

QAdd(a, b) ==
    LET g == GCD(a.d, b.d)
        L == (a.d \div g) * b.d
    IN  Q(a.n * (L \div a.d) + b.n * (L \div b.d), L)

QNeg(a) == [n |-> -a.n, d |-> a.d]

QSub(a, b) == QAdd(a, QNeg(b))

QMul(a, b) ==
    LET g1 == GCD(Abs(a.n), b.d)
        g2 == GCD(Abs(b.n), a.d)
    IN  Q((a.n \div g1) * (b.n \div g2), (a.d \div g2) * (b.d \div g1))

QLt(a, b) == QSub(a, b).n < 0

QLe(a, b) == QSub(a, b).n <= 0

-----------------------------------------------------------------------------
(* The collaborators: ContinuousParameters and RateEquation *)

\* ContinuousParameters providers: a pure function of the time
ParamProviders == {"time", "one_minus_time"}

\* params_of_t(t): the parameter snapshot at time t
ParamsAt(params_of_t, t) ==
    IF params_of_t = "time" THEN t ELSE QSub(QInt(1), t)

\* RateEquations: unit k = 1, param k = p, switch k = 1 below x = 0 and -1
\* from there on, decay k = -x, relax k = p - x
RateEquations == {"unit", "param", "switch", "decay", "relax"}

\* f(p, x) on its n-th call: the auxiliary state is the incrementing call
\* counter, the derivative depends on the kind of f
RateEq(f, p, x, n) ==
    [state |-> n,
     k |-> CASE f = "unit" -> QInt(1)
             [] f = "param" -> p
             [] f = "switch" -> IF QLt(x, QInt(0)) THEN QInt(1) ELSE QInt(-1)
             [] f = "decay" -> QNeg(x)
             [] OTHER -> QSub(p, x)]

\* one stage `state, k = f(params_of_t(t), x)`: the query of params_of_t at t,
\* then the n-th call of f; the record is the stage's entry of the trace
Stage(params_of_t, f, t, x, n) ==
    LET r == RateEq(f, ParamsAt(params_of_t, t), x, n)
    IN  [t |-> t, x |-> x, state |-> r.state, k |-> r.k]

-----------------------------------------------------------------------------
(* Integration schemes.  Each scheme takes the arguments of the source       *)
(* (params_of_t, x, t0, f, Dt) and c, the number of calls f has received so   *)
(* far (the state of the counting RateEquation).  It yields the value the     *)
(* function returns (ret) and the trace of its stages in program order.       *)

\* a returned tuple `state, x`
Pair(state, x) == [kind |-> "pair", state |-> state, x |-> x]

\* a returned bare array
Bare(x) == [kind |-> "array", x |-> x]

\* the new state a returned value holds, pair or bare array
NewX(ret) == ret.x

\* mutation of DT_OPEN_SET_EPS: the epsilon is lost
C3_EpsDropped == QInt(0)

DT_OPEN_SET_EPS == Q(1, 100000)

Euler(params_of_t, x, t0, f, Dt, c) ==
    LET s1 == Stage(params_of_t, f, t0, x, c + 1)
    IN  [ret |-> Pair(s1.state, QAdd(x, QMul(Dt, s1.k))),
         trace |-> <<s1>>]

\* mutation of Midpoint: the second stage queries the end of the step
C8_Midpoint_StageAtEnd(params_of_t, x, t0, f, Dt, c) ==
    LET s1 == Stage(params_of_t, f, t0, x, c + 1)
        x1 == QAdd(x, QMul(QMul(Q(1, 2), Dt), s1.k))
        s2 == Stage(params_of_t, f, QAdd(t0, Dt), x1, c + 2)
    IN  [ret |-> Pair(s2.state, QAdd(x, QMul(Dt, s2.k))),
         trace |-> <<s1, s2>>]

Midpoint(params_of_t, x, t0, f, Dt, c) ==
    LET s1 == Stage(params_of_t, f, t0, x, c + 1)
        x1 == QAdd(x, QMul(QMul(Q(1, 2), Dt), s1.k))
        s2 == Stage(params_of_t, f, QAdd(t0, QMul(Q(1, 2), Dt)), x1, c + 2)
    IN  [ret |-> Pair(s2.state, QAdd(x, QMul(Dt, s2.k))),
         trace |-> <<s1, s2>>]

\* RK4 ends `return x + Dt * (...)`: it returns the bare new state, and
\* state4 is dropped
RK4(params_of_t, x, t0, f, Dt, c) ==
    LET s1 == Stage(params_of_t, f, t0, x, c + 1)
        x1 == QAdd(x, QMul(QMul(Q(1, 2), Dt), s1.k))
        s2 == Stage(params_of_t, f, QAdd(t0, QMul(Q(1, 2), Dt)), x1, c + 2)
        x2 == QAdd(x, QMul(QMul(Q(1, 2), Dt), s2.k))
        s3 == Stage(params_of_t, f, QAdd(t0, QMul(Q(1, 2), Dt)), x2, c + 3)
        x3 == QAdd(x, QMul(Dt, s3.k))
        s4 == Stage(params_of_t, f, QSub(QAdd(t0, Dt), DT_OPEN_SET_EPS), x3,
                    c + 4)
        sum == QAdd(QAdd(QAdd(QMul(Q(1, 6), s1.k), QMul(Q(1, 3), s2.k)),
                         QMul(Q(1, 3), s3.k)),
                    QMul(Q(1, 6), s4.k))
    IN  [ret |-> Bare(QAdd(x, QMul(Dt, sum))),
         trace |-> <<s1, s2, s3, s4>>]

\* mutation of RK4_38: the sign of k1 in the third stage's input is lost
C6_RK4_38_SignSlip(params_of_t, x, t0, f, Dt, c) ==
    LET s1 == Stage(params_of_t, f, t0, x, c + 1)
        x1 == QAdd(x, QMul(QMul(Q(1, 3), Dt), s1.k))
        s2 == Stage(params_of_t, f, QAdd(t0, QMul(Q(1, 3), Dt)), x1, c + 2)
        x2 == QAdd(x, QMul(Dt, QAdd(QMul(Q(1, 3), s1.k),
                                    QMul(QInt(1), s2.k))))
        s3 == Stage(params_of_t, f, QAdd(t0, QMul(Q(2, 3), Dt)), x2, c + 3)
        x3 == QAdd(x, QMul(Dt, QAdd(QSub(s1.k, s2.k), s3.k)))
        s4 == Stage(params_of_t, f, QSub(QAdd(t0, Dt), DT_OPEN_SET_EPS), x3,
                    c + 4)
        sum == QAdd(QAdd(QAdd(QMul(Q(1, 8), s1.k), QMul(Q(3, 8), s2.k)),
                         QMul(Q(3, 8), s3.k)),
                    QMul(Q(1, 8), s4.k))
        xf == QAdd(x, QMul(Dt, sum))
    IN  [ret |-> Pair(s4.state, xf),
         trace |-> <<s1, s2, s3, s4>>]

RK4_38(params_of_t, x, t0, f, Dt, c) ==
    LET s1 == Stage(params_of_t, f, t0, x, c + 1)
        x1 == QAdd(x, QMul(QMul(Q(1, 3), Dt), s1.k))
        s2 == Stage(params_of_t, f, QAdd(t0, QMul(Q(1, 3), Dt)), x1, c + 2)
        x2 == QAdd(x, QMul(Dt, QAdd(QMul(Q(-1, 3), s1.k),
                                    QMul(QInt(1), s2.k))))
        s3 == Stage(params_of_t, f, QAdd(t0, QMul(Q(2, 3), Dt)), x2, c + 3)
        x3 == QAdd(x, QMul(Dt, QAdd(QSub(s1.k, s2.k), s3.k)))
        s4 == Stage(params_of_t, f, QSub(QAdd(t0, Dt), DT_OPEN_SET_EPS), x3,
                    c + 4)
        sum == QAdd(QAdd(QAdd(QMul(Q(1, 8), s1.k), QMul(Q(3, 8), s2.k)),
                         QMul(Q(3, 8), s3.k)),
                    QMul(Q(1, 8), s4.k))
        xf == QAdd(x, QMul(Dt, sum))
    IN  [ret |-> Pair(s4.state, xf),
         trace |-> <<s1, s2, s3, s4>>]

\* mutation of SCHEME_TABLE: the two four-stage schemes are swapped
C7_TableSwapped ==
    [name \in {"Euler", "Midpoint", "RK4", "RK4_38"} |->
        CASE name = "Euler" -> "Euler"
          [] name = "Midpoint" -> "Midpoint"
          [] name = "RK4" -> "RK4_38"
          [] name = "RK4_38" -> "RK4"]

\* the registry: scheme name -> scheme function
SCHEME_TABLE ==
    [name \in {"Euler", "Midpoint", "RK4", "RK4_38"} |->
        CASE name = "Euler" -> "Euler"
          [] name = "Midpoint" -> "Midpoint"
          [] name = "RK4" -> "RK4"
          [] name = "RK4_38" -> "RK4_38"]

\* the four scheme functions of the module
SchemeFunctions == {"Euler", "Midpoint", "RK4", "RK4_38"}

\* calling the function object fn
Apply(fn, params_of_t, x, t0, f, Dt, c) ==
    CASE fn = "Euler" -> Euler(params_of_t, x, t0, f, Dt, c)
      [] fn = "Midpoint" -> Midpoint(params_of_t, x, t0, f, Dt, c)
      [] fn = "RK4" -> RK4(params_of_t, x, t0, f, Dt, c)
      [] fn = "RK4_38" -> RK4_38(params_of_t, x, t0, f, Dt, c)

\* SCHEME_TABLE[name]: the function, or the KeyError of a dict
Lookup(name) ==
    IF name \in DOMAIN SCHEME_TABLE
    THEN [ok |-> TRUE, fn |-> SCHEME_TABLE[name]]
    ELSE [ok |-> FALSE, error |-> "KeyError"]

-----------------------------------------------------------------------------
(* Single scheme calls: SpecScheme draws the arguments of one call and        *)
(* applies a scheme to them, directly or through the registry.                *)

SchemeX == {QInt(0), QInt(1), Q(-1, 2), Q(3, 4)}
SchemeT0 == {QInt(0), Q(1, 4), Q(1, 2), Q(2, 3)}
SchemeDt == {QInt(1), Q(1, 2), Q(1, 3), Q(1, 4)}
\* names asked of the registry: its keys and names it does not hold
AskedNames == {"Euler", "Midpoint", "RK4", "RK4_38", "Heun", "euler"}

NoResult == [how |-> "none"]

InitScheme ==
    /\ call \in [params_of_t : ParamProviders, x : SchemeX, t0 : SchemeT0,
                 f : RateEquations, Dt : SchemeDt, c : {0, 3},
                 result : {NoResult}]
    /\ inp = Idle /\ fast = Idle /\ pts = Idle /\ cfg = Idle /\ ta = Idle

\* fn(params_of_t, x, t0, f, Dt) called directly
DirectCall ==
    /\ \E fn \in SchemeFunctions :
          call' = [call EXCEPT !.result =
                      [how |-> "direct", name |-> fn, ok |-> TRUE,
                       out |-> Apply(fn, call.params_of_t, call.x, call.t0,
                                     call.f, call.Dt, call.c)]]
    /\ UNCHANGED <<inp, fast, pts, cfg, ta>>

\* SCHEME_TABLE[name](params_of_t, x, t0, f, Dt)
RegistryCall ==
    /\ \E name \in AskedNames :
          LET l == Lookup(name)
          IN  call' = [call EXCEPT !.result =
                  IF l.ok
                  THEN [how |-> "registry", name |-> name, ok |-> TRUE,
                        out |-> Apply(l.fn, call.params_of_t, call.x,
                                      call.t0, call.f, call.Dt, call.c)]
                  ELSE [how |-> "registry", name |-> name, ok |-> FALSE,
                        error |-> l.error]]
    /\ UNCHANGED <<inp, fast, pts, cfg, ta>>

NextScheme == DirectCall \/ RegistryCall

SpecScheme == InitScheme /\ [][NextScheme]_vars

-----------------------------------------------------------------------------
(* Step drivers.  Spec draws one set of inputs (params_of_t, x, f, scheme,   *)
(* n_step) and runs StateOdeIntegrateFast and StateOdeIntegrateWithPoints on  *)
(* it, each in its own frame with its own instance of the counting f.  One    *)
(* action is one pass of the `for t in onp.linspace(0, 1, n_step)` loop.      *)

\* onp.linspace(0, 1, num): num points from 0 to 1, the endpoint included;
\* a single point is 0
Linspace01(num) ==
    [i \in 1..num |-> IF num = 1 THEN QInt(0) ELSE Q(i - 1, num - 1)]

\* `state, x = <returned value>`: a tuple unpacks; a bare 0-d array cannot be
\* iterated and the assignment raises TypeError
Unpack(ret) ==
    IF ret.kind = "pair"
    THEN [ok |-> TRUE, state |-> ret.state, x |-> ret.x]
    ELSE [ok |-> FALSE, error |-> "TypeError"]

\* rate equations handed to the drivers: those whose derivative is not
\* proportional to x, so that the exact rationals stay within TLC's integers
\* over n_step steps
DriverRateEquations == {"unit", "param", "switch"}
DriverX == {QInt(1), Q(-1, 2)}

NotCalled == [pc |-> "not_called"]

Init ==
    /\ inp \in [params_of_t : ParamProviders, x : DriverX,
                f : DriverRateEquations, scheme : DOMAIN SCHEME_TABLE,
                n_step : 1..MaxNStep]
    /\ fast = NotCalled
    /\ pts = NotCalled
    /\ call = Idle /\ cfg = Idle /\ ta = Idle

\* the frame of a driver after `dt = 1.0 / n_step` and the evaluation of the
\* loop's iterable; calls logs the scheme calls, c counts the calls of f
Frame(x, n_step) ==
    [pc |-> "loop", dt |-> Q(1, n_step), grid |-> Linspace01(n_step),
     i |-> 0, x |-> x, c |-> 0, calls |-> <<>>]

\* `state, x = <value returned by the scheme called at time t>`: the call is
\* logged, then the unpacking assigns x or raises
Assign(d, t, out) ==
    IF Unpack(out.ret).ok
    THEN [d EXCEPT !.calls = Append(@, [t0 |-> t, Dt |-> d.dt, x |-> d.x,
                                        out |-> out]),
                   !.c = @ + Len(out.trace),
                   !.i = @ + 1,
                   !.x = Unpack(out.ret).x]
    ELSE [d EXCEPT !.calls = Append(@, [t0 |-> t, Dt |-> d.dt, x |-> d.x,
                                        out |-> out]),
                   !.c = @ + Len(out.trace),
                   !.pc = "raised"]

\* one pass of the loop body `state, x = scheme(params_of_t, x, t, f, dt)`
\* with t the next point of the grid
LoopPass(d, scheme) ==
    Assign(d, d.grid[d.i + 1],
           Apply(scheme, inp.params_of_t, d.x, d.grid[d.i + 1], inp.f, d.dt,
                 d.c))

\* `xs.append(onp.array(x))`, reached unless the loop body raised
AppendPoint(d) ==
    IF d.pc = "raised" THEN d ELSE [d EXCEPT !.xs = Append(@, d.x)]

FastEnter ==
    /\ fast.pc = "not_called"
    /\ fast' = Frame(inp.x, inp.n_step)
    /\ UNCHANGED <<call, inp, pts, cfg, ta>>

\* mutation of FastStep: the loop does not carry x forward and every pass
\* starts from the input state
C5_FastStep_StaleState ==
    /\ fast.pc = "loop"
    /\ fast.i < Len(fast.grid)
    /\ fast' = LoopPass([fast EXCEPT !.x = inp.x], SCHEME_TABLE[inp.scheme])
    /\ UNCHANGED <<call, inp, pts, cfg, ta>>

FastStep ==
    /\ fast.pc = "loop"
    /\ fast.i < Len(fast.grid)
    /\ fast' = LoopPass(fast, SCHEME_TABLE[inp.scheme])
    /\ UNCHANGED <<call, inp, pts, cfg, ta>>

\* `return x`
FastReturn ==
    /\ fast.pc = "loop"
    /\ fast.i = Len(fast.grid)
    /\ fast' = [fast EXCEPT !.pc = "returned"]
    /\ UNCHANGED <<call, inp, pts, cfg, ta>>

\* `xs = [onp.array(x)]`
PointsEnter ==
    /\ pts.pc = "not_called"
    /\ pts' = [pc |-> "loop", dt |-> Q(1, inp.n_step),
               grid |-> Linspace01(inp.n_step), i |-> 0, x |-> inp.x,
               c |-> 0, calls |-> <<>>, xs |-> <<inp.x>>]
    /\ UNCHANGED <<call, inp, fast, cfg, ta>>

\* the loop body, then `xs.append(onp.array(x))`
PointsStep ==
    /\ pts.pc = "loop"
    /\ pts.i < Len(pts.grid)
    /\ pts' = AppendPoint(LoopPass(pts, SCHEME_TABLE[inp.scheme]))
    /\ UNCHANGED <<call, inp, fast, cfg, ta>>

\* `return xs`
PointsReturn ==
    /\ pts.pc = "loop"
    /\ pts.i = Len(pts.grid)
    /\ pts' = [pts EXCEPT !.pc = "returned"]
    /\ UNCHANGED <<call, inp, fast, cfg, ta>>

Next ==
    \/ FastEnter
    \/ FastStep
    \/ FastReturn
    \/ PointsEnter
    \/ PointsStep
    \/ PointsReturn

Spec == Init /\ [][Next]_vars

-----------------------------------------------------------------------------
(* Properties of the step drivers (checked under Spec) *)

\* the frames of the drivers that have been entered
Frames == {d \in {fast, pts} : d.pc # "not_called"}

Finished(d) == d.pc \in {"returned", "raised"}

\* C1: for every n_step >= 1 both drivers call the scheme exactly n_step
\* times, in ascending time order, the i-th call (i = 0..n_step-1) with start
\* time i/n_step and step 1/n_step; the start time 1.0 is never passed.
C1_UniformHalfOpenGrid ==
    \A d \in Frames :
        /\ \A j \in 1..Len(d.calls) :
              /\ d.calls[j].t0 = Q(j - 1, inp.n_step)
              /\ d.calls[j].Dt = Q(1, inp.n_step)
              /\ d.calls[j].t0 # QInt(1)
        /\ \A j, k \in 1..Len(d.calls) :
              j < k => QLt(d.calls[j].t0, d.calls[k].t0)
        /\ d.pc = "returned" => Len(d.calls) = inp.n_step

\* C4: for every n_step = N >= 1 and every scheme of the registry
\* StateOdeIntegrateWithPoints returns a list of exactly N+1 snapshots, the
\* first equal to the input state x and element i+1 the state returned by
\* the i-th scheme call.
C4_PointsReturnsAllSnapshots ==
    /\ pts.pc # "raised"
    /\ pts.pc = "returned" =>
          /\ Len(pts.xs) = inp.n_step + 1
          /\ pts.xs[1] = inp.x
          /\ Len(pts.calls) = inp.n_step
          /\ \A i \in 1..inp.n_step :
                pts.xs[i + 1] = NewX(pts.calls[i].out.ret)

\* C5: on identical inputs the two drivers issue the same sequence of scheme
\* calls (same start times, same Dt, same input states), they end the same
\* way, and the last element of the list StateOdeIntegrateWithPoints returns
\* equals the value StateOdeIntegrateFast returns.
C5_DriversAgree ==
    /\ (fast.pc # "not_called" /\ pts.pc # "not_called") =>
          \A j \in 1..Len(fast.calls) :
              j <= Len(pts.calls) =>
                  /\ fast.calls[j].t0 = pts.calls[j].t0
                  /\ fast.calls[j].Dt = pts.calls[j].Dt
                  /\ fast.calls[j].x = pts.calls[j].x
    /\ (Finished(fast) /\ Finished(pts)) =>
          /\ fast.pc = pts.pc
          /\ Len(fast.calls) = Len(pts.calls)
          /\ fast.pc = "returned" => pts.xs[Len(pts.xs)] = fast.x

\* C5 witness: both drivers returned from a run of three or more RK4_38
\* steps that moved the state
C5_Witness ==
    /\ fast.pc = "returned"
    /\ pts.pc = "returned"
    /\ inp.scheme = "RK4_38"
    /\ inp.n_step >= 3
    /\ Len(fast.calls) = inp.n_step
    /\ pts.xs[Len(pts.xs)] = fast.x
    /\ fast.x # inp.x

\* C9: during a whole run of either driver, with any n_step >= 1 and any
\* registry scheme, every time at which params_of_t is queried lies in the
\* half-open interval [0, 1).
C9_QueriesInUnitInterval ==
    \A d \in Frames :
        \A j \in 1..Len(d.calls) :
            \A s \in 1..Len(d.calls[j].out.trace) :
                /\ QLe(QInt(0), d.calls[j].out.trace[s].t)
                /\ QLt(d.calls[j].out.trace[s].t, QInt(1))

-----------------------------------------------------------------------------
(* Properties of one scheme call (checked under SpecScheme) *)

\* a scheme has been called and has returned
Returned == call.result.how # "none" /\ call.result.ok

\* the reference explicit Runge-Kutta tableaus: number of stages, stage
\* matrix a_ji and final weights b_j
RefStages(name) ==
    CASE name = "Euler" -> 1
      [] name = "Midpoint" -> 2
      [] name = "RK4" -> 4
      [] name = "RK4_38" -> 4

RefMatrix(name) ==
    CASE name = "Euler" -> << <<>> >>
      [] name = "Midpoint" -> << <<>>, <<Q(1, 2)>> >>
      [] name = "RK4" ->
            << <<>>, <<Q(1, 2)>>, <<QInt(0), Q(1, 2)>>,
               <<QInt(0), QInt(0), QInt(1)>> >>
      [] name = "RK4_38" ->
            << <<>>, <<Q(1, 3)>>, <<Q(-1, 3), QInt(1)>>,
               <<QInt(1), QInt(-1), QInt(1)>> >>

RefWeights(name) ==
    CASE name = "Euler" -> <<QInt(1)>>
      [] name = "Midpoint" -> <<QInt(0), QInt(1)>>
      [] name = "RK4" -> <<Q(1, 6), Q(1, 3), Q(1, 3), Q(1, 6)>>
      [] name = "RK4_38" -> <<Q(1, 8), Q(3, 8), Q(3, 8), Q(1, 8)>>

RECURSIVE QSum(_)
QSum(s) == IF s = <<>> THEN QInt(0) ELSE QAdd(Head(s), QSum(Tail(s)))

\* x + Dt * sum_i w[i] * k_i over the first Len(w) stages of the trace
RefCombine(x, Dt, w, trace) ==
    QAdd(x, QMul(Dt, QSum([i \in 1..Len(w) |-> QMul(w[i], trace[i].k)])))

\* C2: each of the four schemes returns a pair (auxiliary_state, new_x) whose
\* first component is the auxiliary state of the scheme's last RateEquation
\* call: the counter of call 1 for Euler, of call 2 for Midpoint, of call 4
\* for RK4 and RK4_38 (counted from the calls c made before).
C2_ReturnsLastAuxState ==
    Returned =>
        LET out == call.result.out
            n == RefStages(call.result.name)
        IN  /\ out.ret.kind = "pair"
            /\ out.ret.state = call.c + n
            /\ out.ret.state = out.trace[Len(out.trace)].state
            /\ \A j \in 1..(Len(out.trace) - 1) :
                  out.trace[j].state # out.ret.state

\* C3: in one scheme call with start time t0 and step Dt > 0 every time at
\* which params_of_t is queried is strictly below t0 + Dt; the last stage of
\* RK4 and RK4_38 queries t0 + Dt - 1e-5, and Euler and Midpoint never query
\* the right endpoint t0 + Dt.
C3_QueriesBelowRightEndpoint ==
    Returned =>
        LET out == call.result.out
            name == call.result.name
            right == QAdd(call.t0, call.Dt)
        IN  /\ \A j \in 1..Len(out.trace) : QLt(out.trace[j].t, right)
            /\ name \in {"RK4", "RK4_38"} =>
                  out.trace[Len(out.trace)].t = QSub(right, Q(1, 100000))
            /\ name \in {"Euler", "Midpoint"} =>
                  \A j \in 1..Len(out.trace) : out.trace[j].t # right

\* C3 witness: an RK4 call whose fourth stage was queried 1e-5 below t0 + Dt
C3_Witness ==
    /\ Returned
    /\ call.result.name = "RK4"
    /\ Len(call.result.out.trace) = 4
    /\ call.result.out.trace[4].t
          = QSub(QAdd(call.t0, call.Dt), Q(1, 100000))
    /\ QLt(call.result.out.trace[3].t, call.result.out.trace[4].t)

\* C6: the new state of each scheme equals the reference explicit
\* Runge-Kutta tableau in exact arithmetic: stage 1 is evaluated on x, stage
\* j on x + Dt * sum_{i<j} a_ji * k_i, every k_j is f at its stage's time and
\* input, the new state is x + Dt * sum_j b_j * k_j, and the final weights
\* b_j sum to 1 (so a unit rate advances x by exactly Dt).
C6_MatchesReferenceTableau ==
    Returned =>
        LET out == call.result.out
            name == call.result.name
            n == RefStages(name)
        IN  /\ Len(out.trace) = n
            /\ \A j \in 1..n :
                  /\ out.trace[j].x
                        = RefCombine(call.x, call.Dt, RefMatrix(name)[j],
                                     out.trace)
                  /\ out.trace[j].k
                        = RateEq(call.f,
                                 ParamsAt(call.params_of_t, out.trace[j].t),
                                 out.trace[j].x, 0).k
            /\ NewX(out.ret)
                  = RefCombine(call.x, call.Dt, RefWeights(name), out.trace)
            /\ QSum(RefWeights(name)) = QInt(1)
            /\ call.f = "unit" => NewX(out.ret) = QAdd(call.x, call.Dt)

\* C6 witness: an RK4_38 call on a state- and time-dependent rate whose four
\* derivatives all differ
C6_Witness ==
    /\ Returned
    /\ call.result.name = "RK4_38"
    /\ call.f = "relax"
    /\ Len(call.result.out.trace) = 4
    /\ \A i, j \in 1..4 :
          i # j => call.result.out.trace[i].k # call.result.out.trace[j].k
    /\ NewX(call.result.out.ret) # call.x

\* the scheme function of the given name called directly on the arguments
DirectOut(name) ==
    CASE name = "Euler" ->
            Euler(call.params_of_t, call.x, call.t0, call.f, call.Dt, call.c)
      [] name = "Midpoint" ->
            Midpoint(call.params_of_t, call.x, call.t0, call.f, call.Dt,
                     call.c)
      [] name = "RK4" ->
            RK4(call.params_of_t, call.x, call.t0, call.f, call.Dt, call.c)
      [] name = "RK4_38" ->
            RK4_38(call.params_of_t, call.x, call.t0, call.f, call.Dt, call.c)

\* C7: SCHEME_TABLE has exactly the keys Euler, Midpoint, RK4, RK4_38; the
\* scheme looked up under a key gives the single-step output of the
\* same-named function called directly on the same arguments; any other name
\* fails with a key-not-found error and yields no scheme.
C7_RegistryLookup ==
    /\ DOMAIN SCHEME_TABLE = {"Euler", "Midpoint", "RK4", "RK4_38"}
    /\ call.result.how = "registry" =>
          IF call.result.name \in {"Euler", "Midpoint", "RK4", "RK4_38"}
          THEN /\ call.result.ok
               /\ call.result.out = DirectOut(call.result.name)
          ELSE /\ ~call.result.ok
               /\ call.result.error = "KeyError"
               /\ "out" \notin DOMAIN call.result

\* C7 witness: the registry's RK4_38 was called and ran its four stages
C7_Witness ==
    /\ call.result.how = "registry"
    /\ call.result.name = "RK4_38"
    /\ call.result.ok
    /\ Len(call.result.out.trace) = 4
    /\ call.result.out.ret.kind = "pair"

\* C8: one scheme call makes exactly 1 (Euler), 2 (Midpoint), 4 (RK4) or 4
\* (RK4_38) RateEquation calls, queries params_of_t once per stage at the
\* times Euler t0; Midpoint t0, t0+Dt/2; RK4 t0, t0+Dt/2, t0+Dt/2,
\* t0+Dt-1e-5; RK4_38 t0, t0+Dt/3, t0+2Dt/3, t0+Dt-1e-5, in this order; and
\* stage j+1 comes after stage j (it is the next call f receives) on a state
\* computed from the derivatives of stages 1..j.
C8_StageCountAndOrder ==
    Returned =>
        LET out == call.result.out
            name == call.result.name
            times ==
                CASE name = "Euler" -> <<call.t0>>
                  [] name = "Midpoint" ->
                        <<call.t0, QAdd(call.t0, QMul(call.Dt, Q(1, 2)))>>
                  [] name = "RK4" ->
                        <<call.t0, QAdd(call.t0, QMul(call.Dt, Q(1, 2))),
                          QAdd(call.t0, QMul(call.Dt, Q(1, 2))),
                          QSub(QAdd(call.t0, call.Dt), Q(1, 100000))>>
                  [] name = "RK4_38" ->
                        <<call.t0, QAdd(call.t0, QMul(call.Dt, Q(1, 3))),
                          QAdd(call.t0, QMul(call.Dt, Q(2, 3))),
                          QSub(QAdd(call.t0, call.Dt), Q(1, 100000))>>
        IN  /\ Len(out.trace) = Len(times)
            /\ \A j \in 1..Len(out.trace) :
                  /\ out.trace[j].t = times[j]
                  /\ out.trace[j].state = call.c + j
            /\ \A j \in 1..(Len(out.trace) - 1) :
                  out.trace[j + 1].x
                     = RefCombine(call.x, call.Dt, RefMatrix(name)[j + 1],
                                  [i \in 1..j |-> out.trace[i]])

\* C8 witness: a Midpoint call whose second stage ran at t0 + Dt/2 on a
\* state moved by the first stage's derivative
C8_Witness ==
    /\ Returned
    /\ call.result.name = "Midpoint"
    /\ Len(call.result.out.trace) = 2
    /\ call.result.out.trace[2].t = QAdd(call.t0, QMul(call.Dt, Q(1, 2)))
    /\ call.result.out.trace[2].x # call.result.out.trace[1].x

-----------------------------------------------------------------------------
(* train_adapt (odenet/refine_train.py).  SpecTrain draws the arguments and   *)
(* runs the epoch loop: the head of an epoch (the refinement), one action per *)
(* batch of the loader, and the tail of the epoch (evaluation and learning    *)
(* rate decay).  A model is named by the number of refinements that produced  *)
(* it; a loss or an accuracy is named by the model that produced it.          *)

\* torch.optim.SGD(model.parameters(), lr=lr, ...): one parameter group
SGD(model, lr) == [params |-> model, param_groups |-> <<[lr |-> lr]>>]

exp_lr_scheduler(optimizer, epoch, lr_decay_rate, decayEpoch) ==
    IF epoch \in decayEpoch
    THEN [optimizer EXCEPT !.param_groups =
             [g \in DOMAIN @ |-> [@[g] EXCEPT !.lr = QMul(@, lr_decay_rate)]]]
    ELSE optimizer

\* mutation of Refined: the new optimizer starts at the initial lr
C10_Refined_InitialLr(t) ==
    [t EXCEPT !.model = @ + 1,
              !.model_list = Append(@, t.model + 1),
              !.optimizer = SGD(t.model + 1, t.lr_init),
              !.refine_steps = Append(@, t.step_count)]

\* the body of `if e in N_refine:`: the refined model joins model_list and
\* becomes the model, a new optimizer is made for it at lr_current, and the
\* step count is noted
Refined(t) ==
    [t EXCEPT !.model = @ + 1,
              !.model_list = Append(@, t.model + 1),
              !.optimizer = SGD(t.model + 1, t.lr_current),
              !.refine_steps = Append(@, t.step_count)]

TrainLr == {Q(1, 1000)}
TrainLrDecay == {Q(1, 5), Q(4, 5)}

\* the locals of train_adapt when the epoch loop is reached
InitTrain ==
    /\ cfg \in [N_epochs : 0..MaxEpochs,
                N_refine : SUBSET (0..MaxEpochs),
                epoch_update : SUBSET (0..(MaxEpochs - 1)),
                lr : TrainLr, lr_decay : TrainLrDecay,
                batches : 0..MaxBatches]
    /\ ta = [pc |-> "epoch_head", e |-> 0, b |-> 0, model |-> 0,
             model_list |-> <<0>>, losses |-> <<>>, train_acc |-> <<>>,
             test_acc |-> <<>>, refine_steps |-> <<>>,
             lr_init |-> cfg.lr, lr_current |-> cfg.lr, step_count |-> 0,
             optimizer |-> SGD(0, cfg.lr)]
    /\ call = Idle /\ inp = Idle /\ fast = Idle /\ pts = Idle

\* the head of epoch e, up to the batch loop
EpochHead ==
    /\ ta.pc = "epoch_head"
    /\ ta.e < cfg.N_epochs
    /\ ta' = [(IF ta.e \in cfg.N_refine THEN Refined(ta) ELSE ta)
                 EXCEPT !.pc = "batches", !.b = 0]
    /\ UNCHANGED <<call, inp, fast, pts, cfg>>

\* one batch: optimizer.step(), the loss is recorded, step_count += 1
TrainBatch ==
    /\ ta.pc = "batches"
    /\ ta.b < cfg.batches
    /\ ta' = [ta EXCEPT !.losses = Append(@, ta.model),
                        !.step_count = @ + 1,
                        !.b = @ + 1]
    /\ UNCHANGED <<call, inp, fast, pts, cfg>>

\* the tail of epoch e: the accuracies every fifth epoch, then the decay of
\* lr_current and exp_lr_scheduler
EpochTail ==
    /\ ta.pc = "batches"
    /\ ta.b = cfg.batches
    /\ ta' = [ta EXCEPT
                 !.train_acc = IF ta.e % 5 = 0 THEN Append(@, ta.model) ELSE @,
                 !.test_acc = IF ta.e % 5 = 0 THEN Append(@, ta.model) ELSE @,
                 !.lr_current = IF ta.e \in cfg.epoch_update
                                THEN QMul(@, cfg.lr_decay) ELSE @,
                 !.optimizer = exp_lr_scheduler(@, ta.e, cfg.lr_decay,
                                                cfg.epoch_update),
                 !.e = @ + 1,
                 !.pc = "epoch_head"]
    /\ UNCHANGED <<call, inp, fast, pts, cfg>>

\* `return model_list, losses, refine_steps, train_acc, test_acc`
TrainReturn ==
    /\ ta.pc = "epoch_head"
    /\ ta.e = cfg.N_epochs
    /\ ta' = [ta EXCEPT !.pc = "returned"]
    /\ UNCHANGED <<call, inp, fast, pts, cfg>>

NextTrain ==
    \/ EpochHead
    \/ TrainBatch
    \/ EpochTail
    \/ TrainReturn

SpecTrain == InitTrain /\ [][NextTrain]_vars

-----------------------------------------------------------------------------
(* Properties of train_adapt (checked under SpecTrain) *)

RECURSIVE QPow(_, _)
QPow(a, n) == IF n = 0 THEN QInt(1) ELSE QMul(a, QPow(a, n - 1))

\* the epochs whose head has run, and those whose tail has run
EpochsBegun ==
    IF ta.pc = "batches" THEN 0..ta.e ELSE 0..(ta.e - 1)

EpochsEnded == 0..(ta.e - 1)

\* C10: at the start of every epoch (and at every point between the steps of
\* the loop) the learning rate of every parameter group of the current
\* optimizer equals lr_current, which is lr times lr_decay once per earlier
\* epoch in epoch_update; an optimizer re-created at a refinement therefore
\* starts at lr_current.  model_list has length 1 + the number of epochs
\* begun that are in N_refine (at the return: of the epochs 0..N_epochs-1),
\* and refine_steps holds the step count reached at each of these
\* refinements, in non-decreasing order.
C10_LrAndRefinementBookkeeping ==
    LET decays == Cardinality(EpochsEnded \cap cfg.epoch_update)
        refined == EpochsBegun \cap cfg.N_refine
    IN  /\ ta.lr_current = QMul(cfg.lr, QPow(cfg.lr_decay, decays))
        /\ \A g \in DOMAIN ta.optimizer.param_groups :
              ta.optimizer.param_groups[g].lr = ta.lr_current
        /\ Len(ta.model_list) = 1 + Cardinality(refined)
        /\ Len(ta.refine_steps) = Cardinality(refined)
        /\ \A r \in refined :
              ta.refine_steps[1 + Cardinality({q \in refined : q < r})]
                 = r * cfg.batches
        /\ \A i, j \in 1..Len(ta.refine_steps) :
              i <= j => ta.refine_steps[i] <= ta.refine_steps[j]
        /\ ta.pc = "returned" =>
              Len(ta.model_list)
                 = 1 + Cardinality((0..(cfg.N_epochs - 1)) \cap cfg.N_refine)

\* C10 witness: the run returned after a refinement that followed a decay:
\* the re-created optimizer runs at the decayed rate, not at the initial lr
C10_Witness ==
    /\ ta.pc = "returned"
    /\ \E u \in cfg.epoch_update : \E r \in cfg.N_refine :
          u < r /\ r < cfg.N_epochs
    /\ cfg.batches > 0
    /\ Len(ta.model_list) >= 2
    /\ ta.optimizer.params = ta.model
    /\ ta.model > 0
    /\ ta.lr_current # ta.lr_init
    /\ ta.optimizer.param_groups[1].lr = ta.lr_current
    /\ ta.refine_steps[Len(ta.refine_steps)] > 0

=============================================================================
